---- MODULE Spec2Model ----
(***************************************************************************)
(* Structure MCMC over DAGs: the proposal mechanism of                     *)
(* src/mcmc/graphs/proposal.py.                                            *)
(*                                                                         *)
(*   - ParentSetDistribution (sample, log_z, __getitem__) and              *)
(*     get_parent_set_distributions;                                       *)
(*   - basic_move (single edge addition / deletion) and rev_move (edge     *)
(*     reversal with resampled parent sets);                               *)
(*   - DAGProposal.sample, driven by a Metropolis driver that feeds the    *)
(*     returned state back in.                                             *)
(*                                                                         *)
(* DAGState (mcmc.graphs.state_space) and power_set (core.misc) are not    *)
(* part of proposal.py; they are modelled from their contract.            *)
(* Log scores are real numbers: they are kept symbolic (which keys a       *)
(* normaliser sums over), the integer neighbourhood sizes are computed.    *)
(***************************************************************************)
EXTENDS Integers, Sequences, FiniteSets

VARIABLES
    fan_in,   \* DAGProposal.fan_in
    moves,    \* DAGProposal.moves, a list of move types
    state,    \* the driver's current DAGState object
    pc,       \* the driver's position: "idle" or "returned"
    out,      \* what the last DAGProposal.sample call did
    psd,      \* a ParentSetDistribution under test
    cond,     \* the condition passed to it
    res       \* what the last call on psd returned

vars == <<fan_in, moves, state, pc, out, psd, cond, res>>

(***************************************************************************)
(* Bounds                                                                  *)
(***************************************************************************)
NumVars == 3

MaxFanIn == 2

Nodes == 0 .. (NumVars - 1)

\* An optional value: <<>> is "no value" (None, a missing attribute), <<x>> is x.
None == <<>>

Some(x) == <<x>>

(***************************************************************************)
(* DAGState: adjacency plus the derived ancestor relation.                 *)
(* adj is the set of edges <<u, v>>, u a parent of v.                      *)
(***************************************************************************)
parents(adj, v) == {u \in Nodes : <<u, v>> \in adj}

children(adj, S) == {v \in Nodes : \E u \in S : <<u, v>> \in adj}

RECURSIVE reach(_, _)
reach(adj, S) ==
    LET T == S \cup children(adj, S)
    IN  IF T = S THEN S ELSE reach(adj, T)

\* The strict descendants of i: the nodes a path of one or more edges leads to.
descendants(adj, i) == reach(adj, children(adj, {i}))

\* ancestor_matrix[u, v] = 1 iff v is an ancestor of u.
ancestor_matrix(adj) ==
    [p \in Nodes \X Nodes |-> IF p[1] \in descendants(adj, p[2]) THEN 1 ELSE 0]

\* adj as a 0/1 matrix: adj[u, v] = 1 iff u -> v.
adj_matrix(adj) ==
    [p \in Nodes \X Nodes |-> IF p \in adj THEN 1 ELSE 0]

Acyclic(adj) == \A i \in Nodes : i \notin descendants(adj, i)

\* Deep copy: an independent object with the same fields.
copy(s) == [adj |-> s.adj, fan_in_ |-> s.fan_in_]

add_edge(s, u, v) == [s EXCEPT !.adj = @ \cup {<<u, v>>}]

remove_edge(s, u, v) == [s EXCEPT !.adj = @ \ {<<u, v>>}]

\* Remove every incoming edge of the nodes in ns.
orphan(s, ns) == [s EXCEPT !.adj = {e \in @ : e[2] \notin ns}]

add_edges(s, es) == [s EXCEPT !.adj = @ \cup es]

\* scipy's nonzero() lists the coordinates in row-major order.
AllPairs == [k \in 1 .. (NumVars * NumVars) |->
                <<(k - 1) \div NumVars, (k - 1) % NumVars>>]

nonzero(M) == SelectSeq(AllPairs, LAMBDA p : M[p] # 0)

\* adj.A.sum(axis=0): the column sums, i.e. each node's parent count.
col_sum(adj, v) == Cardinality(parents(adj, v))

Range(s) == {s[k] : k \in 1 .. Len(s)}

(***************************************************************************)
(* Conditions: the predicates over parent sets that the moves pass to      *)
(* sample and log_z.  None is "no condition"; otherwise the predicate is   *)
(*   (member absent or member in ps) and ps.isdisjoint(disjoint).          *)
(***************************************************************************)
Condition(member, disjoint) == Some([member |-> member, disjoint |-> disjoint])

Holds(c, ps) ==
    /\ (c[1].member = None \/ c[1].member[1] \in ps)
    /\ ps \cap c[1].disjoint = {}

(***************************************************************************)
(* core.misc.power_set(range(n), fan_in): every subset of at most fan_in   *)
(* elements.                                                               *)
(***************************************************************************)
power_set(S, k) == {s \in SUBSET S : Cardinality(s) <= k}

(***************************************************************************)
(* ParentSetDistribution                                                   *)
(***************************************************************************)
IndexError == "IndexError"

KeyError == "KeyError"

TypeError == "TypeError"

\* sample: "p_sets, prob = list(zip(*table))" with fewer than two tuples.
NotEnoughValues == "ValueError: not enough values to unpack"

\* sample: the same unpacking with more than two tuples.
TooManyValues == "ValueError: too many values to unpack"

\* log_z: "selected.max()" of an empty array.
ZeroSizeMax == "ValueError: zero-size array to reduction operation maximum"

\* The code has no exception classes of its own.  The failure of a query
\* whose conditioned subset is empty is one of these two ValueErrors.
EmptyDistributionError == {NotEnoughValues, ZeroSizeMax}

\* The constructor: parent_sets[0] is read, so an empty list raises.
ParentSetDistribution(var, parent_sets) ==
    IF parent_sets = {}
    THEN [err |-> IndexError, var |-> var, keys |-> {}]
    ELSE [err |-> "", var |-> var, keys |-> parent_sets]

\* A log normaliser, kept symbolic: the raw score of one key (raw), or the
\* log-sum-exp over a set of keys.
LogZ(raw, over) == [raw |-> raw, over |-> over]

\* The result of a call on a distribution.
Raised(e) == [err |-> e, key |-> None, elem |-> None, z |-> None]

Returned(key, elem, z) == [err |-> "", key |-> key, elem |-> elem, z |-> Some(z)]

\* __getitem__
getitem(d, item) ==
    IF item \in d.keys THEN Returned(Some(item), None, LogZ(TRUE, {item}))
    ELSE Raised(KeyError)

MinCard(ks) == CHOOSE n \in 0 .. NumVars : /\ \E k \in ks : Cardinality(k) = n
                                           /\ \A k \in ks : Cardinality(k) >= n

\* sample with no condition: zip(*self.table) iterates the dictionary, so it
\* zips the KEYS (frozensets) together.  The unpacking into (p_sets, prob)
\* needs exactly two tuples, i.e. a shortest key of two elements; p_sets and
\* prob are then elements of the keys, in the sets' iteration order.
sample_uncond(d) ==
    IF MinCard(d.keys) < 2 THEN {Raised(NotEnoughValues)}
    ELSE IF MinCard(d.keys) > 2 THEN {Raised(TooManyValues)}
    ELSE IF Cardinality(d.keys) = 1
         THEN {Returned(None, Some(e), LogZ(TRUE, d.keys)) :
                   e \in UNION d.keys}
         ELSE {Raised(TypeError)} \cup
              {Returned(None, Some(e), LogZ(FALSE, d.keys)) :
                   e \in UNION d.keys}

\* sample with a condition: the set of results a call can return.  The
\* scores are numpy floats, so exp(score - max) is taken to be positive:
\* every selected key can be drawn.
sample_cond(d, condition) ==
    LET table == {k \in d.keys : Holds(condition, k)}
    IN  IF table = {} THEN {Raised(NotEnoughValues)}
        ELSE IF Cardinality(table) = 1
             THEN {Returned(Some(k), None, LogZ(TRUE, table)) : k \in table}
             ELSE {Returned(Some(k), None, LogZ(FALSE, table)) : k \in table}

sample(d, condition) ==
    IF condition = None THEN sample_uncond(d) ELSE sample_cond(d, condition)

\* A variant of log_z that sums without taking the maximum first: an empty
\* selection then gives log(0) instead of an error.
log_z_nomax(d, condition) ==
    IF condition = None THEN Raised(TypeError)
    ELSE LET selected == {k \in d.keys : Holds(condition, k)}
         IN  IF Cardinality(selected) = 1
             THEN Returned(None, None, LogZ(TRUE, selected))
             ELSE Returned(None, None, LogZ(FALSE, selected))

\* log_z.  With no condition, np.asarray of a dictionary view is a 0-d
\* object array and len() of it raises.
log_z(d, condition) ==
    IF condition = None THEN Raised(TypeError)
    ELSE LET selected == {k \in d.keys : Holds(condition, k)}
         IN  IF Cardinality(selected) = 1
             THEN Returned(None, None, LogZ(TRUE, selected))
             ELSE IF selected = {}
                  THEN Raised(ZeroSizeMax)
                  ELSE Returned(None, None, LogZ(FALSE, selected))

(***************************************************************************)
(* get_parent_set_distributions: one distribution per variable.  feasible  *)
(* is the optional `condition` filter: None, or Some(f) with f[var] the    *)
(* parent sets it lets through.                                            *)
(***************************************************************************)
var_psets(var, F, feasible) ==
    {s \in power_set(Nodes, F) :
        /\ var \notin s
        /\ (feasible = None \/ s \in feasible[1][var])}

get_parent_set_distributions(F, feasible) ==
    [var \in Nodes |-> ParentSetDistribution(var, var_psets(var, F, feasible))]

(***************************************************************************)
(* Failures of the moves and of DAGProposal.sample                         *)
(***************************************************************************)
\* DAGProposal.sample: the fan-in precondition.
FanInViolationError == "ValueError: Fan in restriction"

\* rng.choice given probabilities that are 0/0, or an empty population.
ChoiceError == "ValueError: rng.choice"

ZeroDivisionError == "ZeroDivisionError"

\* What a propose returns or how it fails.  state is the input object as the
\* call leaves it, new_state the returned object (None on failure).
Proposal(err, st, new, op, edge, q_move, q_inv) ==
    [err |-> err, state |-> st, new_state |-> new, op |-> op, edge |-> edge,
     q_move |-> q_move, q_inv |-> q_inv]

Failed(err, st) == Proposal(err, st, None, "", None, 0, 0)

(***************************************************************************)
(* basic_move: add or delete one edge                                      *)
(***************************************************************************)
\* A variant of moves that forgets to subtract the ancestor matrix.
basic_move_moves_no_anc(s) ==
    LET adj == adj_matrix(s.adj)
        add == [p \in Nodes \X Nodes |->
                   IF col_sum(s.adj, p[2]) >= s.fan_in_[1] THEN 0
                   ELSE (IF p[1] = p[2] THEN 0 ELSE 1) - adj[p]]
    IN  <<nonzero(add), nonzero(adj)>>

\* A variant of moves that clears a column only above the fan-in (> for >=).
basic_move_moves_gt(s) ==
    LET anc == ancestor_matrix(s.adj)
        adj == adj_matrix(s.adj)
        add == [p \in Nodes \X Nodes |->
                   IF col_sum(s.adj, p[2]) > s.fan_in_[1] THEN 0
                   ELSE (IF p[1] = p[2] THEN 0 ELSE 1) - (adj[p] + anc[p])]
    IN  <<nonzero(add), nonzero(adj)>>

\* moves: the pair (add_edges, delete_arcs).
basic_move_moves(s) ==
    LET anc == ancestor_matrix(s.adj)
        adj == adj_matrix(s.adj)
        add == [p \in Nodes \X Nodes |->
                   IF col_sum(s.adj, p[2]) >= s.fan_in_[1] THEN 0
                   ELSE (IF p[1] = p[2] THEN 0 ELSE 1) - (adj[p] + anc[p])]
    IN  <<nonzero(add), nonzero(adj)>>

_n_adds(s, F) ==
    LET anc == ancestor_matrix(s.adj)
        adj == adj_matrix(s.adj)
        add == [p \in Nodes \X Nodes |->
                   IF col_sum(s.adj, p[2]) >= F THEN 0
                   ELSE (IF p[1] = p[2] THEN 0 ELSE 1) - (adj[p] + anc[p])]
    IN  Len(nonzero(add))

_n_deletes(s) == Len(nonzero(adj_matrix(s.adj)))

\* A variant of the mutation without the copy: new_state is the input object.
basic_move_apply_inplace(st, move, u, v) ==
    LET new_state == IF move = 1 THEN remove_edge(st, u, v) ELSE add_edge(st, u, v)
    IN  [state |-> new_state, new_state |-> new_state]

\* A variant of the mutation with the end points of the arc exchanged.
basic_move_apply_swapped(st, move, u, v) ==
    LET new_state == copy(st)
    IN  [state |-> st,
         new_state |-> IF move = 1 THEN remove_edge(new_state, v, u)
                                   ELSE add_edge(new_state, v, u)]

\* new_state = state.copy(), then the chosen edge is removed from (move = 1)
\* or added to (move = 0) new_state.  The two objects after the mutation.
basic_move_apply(st, move, u, v) ==
    LET new_state == copy(st)
    IN  [state |-> st,
         new_state |-> IF move = 1 THEN remove_edge(new_state, u, v)
                                   ELSE add_edge(new_state, u, v)]

\* The rest of propose, once the move and the arc are drawn.
basic_move_finish(h, scores, move, u, v, q_move) ==
    LET z_old == getitem(scores[v], parents(h.state.adj, v))
        z_new == getitem(scores[v], parents(h.new_state.adj, v))
        q_inv == _n_adds(h.new_state, h.state.fan_in_[1]) + _n_deletes(h.new_state)
    IN  IF z_old.err # "" THEN Failed(z_old.err, h.state)
        ELSE IF z_new.err # "" THEN Failed(z_new.err, h.state)
        ELSE IF q_inv = 0 THEN Failed(ZeroDivisionError, h.state)
        ELSE Proposal("", h.state, Some(h.new_state),
                      IF move = 1 THEN "delete" ELSE "add", Some(<<u, v>>),
                      q_move, q_inv)

\* propose: every result the random draws allow.  With can_add + can_delete
\* = 0 the probabilities are 0/0: rng.choice raises, or draws ADD and then
\* raises on the empty arc list; either way the call fails in rng.choice.
basic_move_propose(st, arcs, scores) ==
    LET can_add == Len(arcs[1])
        can_delete == Len(arcs[2])
    IN  IF can_add + can_delete = 0 THEN {Failed(ChoiceError, st)}
        ELSE UNION {
               {LET e == arcs[move + 1][k]
                    h == basic_move_apply(st, move, e[1], e[2])
                IN  basic_move_finish(h, scores, move, e[1], e[2],
                                      can_add + can_delete) :
                   k \in 1 .. Len(arcs[move + 1])} :
               move \in {0, 1}}

(***************************************************************************)
(* rev_move: reverse one edge by resampling both parent sets               *)
(***************************************************************************)
rev_move_moves(s) == nonzero(adj_matrix(s.adj))

\* z_i: the parent sets of i disjoint from i's descendants.
rev_cond_z_i(st, i, j) == Condition(None, descendants(st.adj, i))

\* z_star_j: the parent sets of j that hold i and avoid j's descendants.
rev_cond_z_star_j(st, i, j) == Condition(Some(i), descendants(st.adj, j))

\* A variant that orphans i alone.
rev_move_orphaned_i(st, i, j) == orphan(copy(st), {i})

\* new_state = state.copy(); new_state.orphan([i, j])
rev_move_orphaned(st, i, j) == orphan(copy(st), {i, j})

\* The condition of the sample for i, on the orphaned state.
rev_cond_ps_i(new_state, i, j) == Condition(Some(j), descendants(new_state.adj, i))

\* A variant of the sample for j with no acyclicity condition.
rev_cond_ps_j_free(new_state, i, j) == Condition(None, {})

\* The condition of the sample for j, once i has its new parents.
rev_cond_ps_j(new_state, i, j) == Condition(None, descendants(new_state.adj, j))

\* new_state.add_edges(list(product(ps, [v])))
rev_move_attach(new_state, ps, v) == add_edges(new_state, {<<p, v>> : p \in ps})

\* The second half: j's parents are sampled and the result is assembled.
rev_move_finish(st, s1, scores, i, j, n) ==
    {IF r_j.err # "" THEN Failed(r_j.err, st)
     ELSE LET s2 == rev_move_attach(s1, r_j.key[1], j)
              new_i == getitem(scores[i], parents(s2.adj, i))
              new_j == getitem(scores[j], parents(s2.adj, j))
          IN  IF new_i.err # "" THEN Failed(new_i.err, st)
              ELSE IF new_j.err # "" THEN Failed(new_j.err, st)
              ELSE IF Len(nonzero(adj_matrix(s2.adj))) = 0
                   THEN Failed(ZeroDivisionError, st)
              ELSE Proposal("", st, Some(s2), "reverse", Some(<<i, j>>),
                            n, Len(nonzero(adj_matrix(s2.adj)))) :
        r_j \in sample(scores[j], rev_cond_ps_j(s1, i, j))}

\* propose for the arc (i, j).
rev_move_arc(st, scores, i, j, n) ==
    LET old_i == getitem(scores[i], parents(st.adj, i))
        old_j == getitem(scores[j], parents(st.adj, j))
        z_i == log_z(scores[i], rev_cond_z_i(st, i, j))
        z_star_j == log_z(scores[j], rev_cond_z_star_j(st, i, j))
        s0 == rev_move_orphaned(st, i, j)
    IN  IF old_i.err # "" THEN {Failed(old_i.err, st)}
        ELSE IF old_j.err # "" THEN {Failed(old_j.err, st)}
        ELSE IF z_i.err # "" THEN {Failed(z_i.err, st)}
        ELSE IF z_star_j.err # "" THEN {Failed(z_star_j.err, st)}
        ELSE UNION {
               IF r_i.err # "" THEN {Failed(r_i.err, st)}
               ELSE rev_move_finish(st, rev_move_attach(s0, r_i.key[1], i),
                                    scores, i, j, n) :
               r_i \in sample(scores[i], rev_cond_ps_i(s0, i, j))}

\* propose: rng.choice(0) raises on an empty arc list.
rev_move_propose(st, arcs, scores) ==
    IF Len(arcs) = 0 THEN {Failed(ChoiceError, st)}
    ELSE UNION {rev_move_arc(st, scores, arcs[k][1], arcs[k][2], Len(arcs)) :
                    k \in 1 .. Len(arcs)}

(***************************************************************************)
(* DAGProposal                                                             *)
(***************************************************************************)
\* The move types a proposal is configured with, each with a positive
\* selection probability.
MoveLists == {<<"basic_move">>, <<"rev_move">>, <<"basic_move", "rev_move">>}

\* A variant of initialize whose tables allow one parent more.
ps_scores__wide(F) == get_parent_set_distributions(F + 1, None)

\* initialize: the parent-set tables, built with the proposal's fan-in and
\* no feasibility filter.
ps_scores_(F) == get_parent_set_distributions(F, None)

\* The record of one sample call: pre is the input state as passed in, inp
\* the same object when the call ends, new the returned state, move the move
\* type propose was delegated to.
Call(pre, move, r) ==
    [err |-> r.err, pre |-> pre, inp |-> Some(r.state), new |-> r.new_state,
     move |-> move, op |-> r.op, edge |-> r.edge,
     q_move |-> r.q_move, q_inv |-> r.q_inv]

NoCall == [err |-> "", pre |-> None, inp |-> None, new |-> None,
           move |-> None, op |-> "", edge |-> None, q_move |-> 0, q_inv |-> 0]

\* m.moves(state) of the move type named m.
moves_of(m, st) ==
    IF m = "basic_move" THEN basic_move_moves(st) ELSE rev_move_moves(st)

\* bool(len(moves)): the length of what moves returned.  basic_move returns
\* a pair of lists, rev_move one list.
has_move(mvs) == Len(mvs) # 0

\* self.moves[m].propose(state, move_arcs[m], ...), then the fan-in is
\* carried onto the returned state.
delegate(m, st, F) ==
    LET rs == IF m = "basic_move"
              THEN basic_move_propose(st, moves_of(m, st), ps_scores_(F))
              ELSE rev_move_propose(st, moves_of(m, st), ps_scores_(F))
    IN  {IF r.err # "" THEN r
         ELSE [r EXCEPT !.new_state = Some([r.new_state[1] EXCEPT !.fan_in_ = Some(F)])] :
            r \in rs}

\* sample: every outcome a call on st can have.  When no move has_move the
\* renormalisation is 0/0 and rng.choice is given NaN probabilities: it
\* raises, or (a numpy that does not check for NaN) draws index 0.
DAGProposal_sample(st, F, ms) ==
    IF \E v \in Nodes : Cardinality(parents(st.adj, v)) > F
    THEN {Call(Some(st), None, Failed(FanInViolationError, st))}
    ELSE LET s1 == [st EXCEPT !.fan_in_ = Some(F)]
             drawn == {m \in 1 .. Len(ms) : has_move(moves_of(ms[m], s1))}
         IN  IF drawn = {}
             THEN {Call(Some(st), None, Failed(ChoiceError, s1))} \cup
                  {Call(Some(st), Some(ms[1]), r) : r \in delegate(ms[1], s1, F)}
             ELSE UNION {{Call(Some(st), Some(ms[m]), r) :
                             r \in delegate(ms[m], s1, F)} : m \in drawn}

\* DAGProposal.random_state: an acyclic state; only `fan_in` is set on it,
\* so the `fan_in_` attribute is missing.  The driver may start from any
\* acyclic state.
AllEdges == {p \in Nodes \X Nodes : p[1] # p[2]}

InitialStates == {[adj |-> A, fan_in_ |-> None] : A \in {B \in SUBSET AllEdges : Acyclic(B)}}

NoDist == [err |-> "", var |-> 0, keys |-> {}]

NoResult == Raised("")

(***************************************************************************)
(* The chain: a driver calls sample and feeds the returned state back in.  *)
(***************************************************************************)
Init ==
    /\ fan_in \in 0 .. MaxFanIn
    /\ moves \in MoveLists
    /\ state \in InitialStates
    /\ pc = "idle"
    /\ out = NoCall
    /\ psd = NoDist
    /\ cond = None
    /\ res = NoResult

Sample ==
    /\ pc = "idle"
    /\ \E o \in DAGProposal_sample(state, fan_in, moves) :
          /\ out' = o
          /\ state' = o.inp[1]
    /\ pc' = "returned"
    /\ UNCHANGED <<fan_in, moves, psd, cond, res>>

\* The driver accepts the proposal: the returned state is the next input.
Accept ==
    /\ pc = "returned"
    /\ out.err = ""
    /\ state' = out.new[1]
    /\ pc' = "idle"
    /\ out' = NoCall
    /\ UNCHANGED <<fan_in, moves, psd, cond, res>>

\* The driver rejects the proposal, or the call failed: the state stays.
Reject ==
    /\ pc = "returned"
    /\ pc' = "idle"
    /\ out' = NoCall
    /\ UNCHANGED <<fan_in, moves, state, psd, cond, res>>

Next == Sample \/ Accept \/ Reject

Spec == Init /\ [][Next]_vars

(***************************************************************************)
(* A ParentSetDistribution on its own: a table built for one variable      *)
(* (any feasibility filter), queried once with any condition.              *)
(***************************************************************************)
Conditions ==
    {None} \cup
    {Condition(m, D) : m \in {None} \cup {Some(n) : n \in Nodes}, D \in SUBSET Nodes}

BuiltDistributions(F) ==
    {d \in {get_parent_set_distributions(F, Some([w \in Nodes |-> ks]))[v] :
                v \in Nodes, ks \in SUBSET power_set(Nodes, F)} : d.err = ""}

InitPSD ==
    /\ fan_in \in 0 .. MaxFanIn
    /\ moves = <<>>
    /\ state = [adj |-> {}, fan_in_ |-> None]
    /\ pc = "built"
    /\ out = NoCall
    /\ psd \in BuiltDistributions(fan_in)
    /\ cond \in Conditions
    /\ res = NoResult

CallSample ==
    /\ pc = "built"
    /\ res' \in sample(psd, cond)
    /\ pc' = "sample"
    /\ UNCHANGED <<fan_in, moves, state, out, psd, cond>>

CallLogZ ==
    /\ pc = "built"
    /\ res' = log_z(psd, cond)
    /\ pc' = "log_z"
    /\ UNCHANGED <<fan_in, moves, state, out, psd, cond>>

NextPSD == CallSample \/ CallLogZ

SpecPSD == InitPSD /\ [][NextPSD]_vars

(***************************************************************************)
(* Properties                                                              *)
(***************************************************************************)
Returned_ == pc = "returned"

Delegated(m) == pc = "returned" /\ out.move = Some(m)

Succeeded(m) == Delegated(m) /\ out.err = ""

SymDiff(A, B) == (A \ B) \cup (B \ A)

WithinFanIn(adj, F) == \A v \in Nodes : Cardinality(parents(adj, v)) <= F

\* The input of the last call, carrying the configured fan-in.
Stamped(st) == [st EXCEPT !.fan_in_ = Some(fan_in)]

\* C1: whenever basic_move.propose is given an acyclic state within the
\* fan-in bound that has an addable or a deletable edge, it returns a state,
\* and the state it returns is acyclic and differs from the input by exactly
\* one edge.
C1_OneEdge ==
    Delegated("basic_move") =>
        LET arcs == basic_move_moves(out.inp[1])
        IN  /\ (Len(arcs[1]) + Len(arcs[2]) > 0) => out.err = ""
            /\ out.err = "" =>
                  /\ Acyclic(out.new[1].adj)
                  /\ Cardinality(SymDiff(out.new[1].adj, out.pre[1].adj)) = 1

C1_Witness ==
    /\ Succeeded("basic_move")
    /\ out.op = "add"
    /\ Cardinality(out.pre[1].adj) >= 2

\* C2: the state rev_move.propose returns for the arc (i, j) is acyclic, has
\* no edge i -> j and has j among the parents of i.
C2_Reversed ==
    Succeeded("rev_move") =>
        LET i == out.edge[1][1]
            j == out.edge[1][2]
        IN  /\ Acyclic(out.new[1].adj)
            /\ <<i, j>> \notin out.new[1].adj
            /\ j \in parents(out.new[1].adj, i)

C2_Witness ==
    /\ Succeeded("rev_move")
    /\ Cardinality(out.pre[1].adj) >= 2
    /\ Cardinality(parents(out.new[1].adj, out.edge[1][1])) >= 2

\* C3 (as claimed): sample leaves the input state object as it was: edges,
\* ancestor relation and every attribute, the fan-in field included.
C3_InputUntouched ==
    Returned_ => out.inp = out.pre

\* C3 (amended): sample never changes the edges (hence the ancestor and
\* descendant relation) of the input state, whether it returns or fails; the
\* one attribute it writes on the input is the fan-in field, set to the
\* configured fan-in once the precondition check has passed.
C3_InputEdgesUntouched ==
    Returned_ =>
        /\ out.inp[1].adj = out.pre[1].adj
        /\ descendants(out.inp[1].adj, 0) = descendants(out.pre[1].adj, 0)
        /\ IF out.err = FanInViolationError
           THEN out.inp = out.pre
           ELSE out.inp[1].fan_in_ = Some(fan_in)
        /\ state = out.inp[1]

C3_Witness ==
    /\ Returned_
    /\ out.err = ""
    /\ out.new[1].adj # out.pre[1].adj
    /\ out.pre[1].fan_in_ = None
    /\ out.inp[1].fan_in_ = Some(fan_in)

\* Every configured move type has an empty neighbourhood in st.
AllEmpty(st) ==
    \A m \in 1 .. Len(moves) :
        IF moves[m] = "basic_move"
        THEN Len(basic_move_moves(st)[1]) + Len(basic_move_moves(st)[2]) = 0
        ELSE Len(rev_move_moves(st)) = 0

\* C4: when every configured move type has an empty neighbourhood, sample
\* fails by itself: it returns no state and delegates to no move type.
C4_NoMovesFails ==
    (Returned_ /\ out.err # FanInViolationError /\ AllEmpty(out.inp[1])) =>
        /\ out.err # ""
        /\ out.new = None
        /\ out.move = None

\* The keys a condition selects; no condition selects every key.
Candidates(d, c) == IF c = None THEN d.keys ELSE {k \in d.keys : Holds(c, k)}

\* C5: sample returns a key of the table that satisfies the condition, every
\* such key is a possible result, and no condition means every key.
C5_SampleFromCandidates ==
    (pc = "sample" /\ Candidates(psd, cond) # {}) =>
        /\ res.err = ""
        /\ res.key # None
        /\ res.key[1] \in Candidates(psd, cond)
        /\ \A k \in Candidates(psd, cond) :
              \E r \in sample(psd, cond) : r.err = "" /\ r.key = Some(k)

\* C6: when no key of the table satisfies the condition, sample and log_z
\* both fail with the empty-selection error and return nothing.
C6_EmptyFails ==
    (pc \in {"sample", "log_z"} /\ Candidates(psd, cond) = {}) =>
        /\ res.err \in EmptyDistributionError
        /\ res.key = None
        /\ res.z = None

C6_Witness ==
    /\ pc = "log_z"
    /\ Candidates(psd, cond) = {}
    /\ Cardinality(psd.keys) >= 2
    /\ res.err = ZeroSizeMax

\* C7: the neighbourhood basic_move enumerates in a state with fan-in F lists
\* as addable exactly the pairs (u, v), u # v, that are no edge, with v no
\* ancestor of u and fewer than F parents of v, each once; and as deletable
\* exactly the edges.  _n_adds and _n_deletes count the same lists.
Addable(adj, F) ==
    {p \in Nodes \X Nodes :
        /\ p[1] # p[2]
        /\ p \notin adj
        /\ p[1] \notin descendants(adj, p[2])
        /\ Cardinality(parents(adj, p[2])) < F}

C7_Neighbourhood ==
    Returned_ =>
        LET s == Stamped(out.pre[1])
            arcs == basic_move_moves(s)
        IN  /\ Range(arcs[1]) = Addable(s.adj, fan_in)
            /\ Len(arcs[1]) = Cardinality(Addable(s.adj, fan_in))
            /\ Range(arcs[2]) = s.adj
            /\ Len(arcs[2]) = Cardinality(s.adj)
            /\ _n_adds(s, fan_in) = Len(arcs[1])
            /\ _n_deletes(s) = Len(arcs[2])

C7_Witness ==
    /\ Delegated("basic_move")
    /\ \E v \in Nodes : Cardinality(parents(out.pre[1].adj, v)) = fan_in
    /\ \E p \in AllEdges :
          /\ p \notin out.pre[1].adj
          /\ p[1] \in descendants(out.pre[1].adj, p[2])
    /\ Addable(out.pre[1].adj, fan_in) # {}

\* C8: a state that went through sample (it carries the fan-in stamp) has at
\* most fan_in parents per node; so has every state sample returns, and the
\* precondition check never fails on such a state.
C8_FanInKept ==
    /\ state.fan_in_ # None => WithinFanIn(state.adj, fan_in)
    /\ Returned_ =>
          /\ out.err = "" => WithinFanIn(out.new[1].adj, fan_in)
          /\ out.pre[1].fan_in_ # None => out.err # FanInViolationError

C8_Witness ==
    /\ Succeeded("rev_move")
    /\ out.pre[1].fan_in_ # None
    /\ \E v \in Nodes : Cardinality(parents(out.new[1].adj, v)) = fan_in
    /\ fan_in >= 1

\* C9: after basic_move added (deleted) the edge (u, v), the neighbourhood
\* of the new state lists (u, v) as deletable (addable), undoing it gives the
\* edges of the old state back, and q_inv, the size of that neighbourhood,
\* is at least 1.
C9_Reversible ==
    Succeeded("basic_move") =>
        LET e == out.edge[1]
            back == basic_move_moves(out.new[1])
        IN  /\ out.op = "add" =>
                  /\ e \in Range(back[2])
                  /\ remove_edge(out.new[1], e[1], e[2]).adj = out.pre[1].adj
            /\ out.op = "delete" =>
                  /\ e \in Range(back[1])
                  /\ add_edge(out.new[1], e[1], e[2]).adj = out.pre[1].adj
            /\ out.q_inv = Len(back[1]) + Len(back[2])
            /\ out.q_inv >= 1

C9_Witness ==
    /\ Succeeded("basic_move")
    /\ out.op = "delete"
    /\ Cardinality(parents(out.pre[1].adj, out.edge[1][2])) = fan_in
    /\ out.q_inv >= 2

\* C10: with fan-in >= 1 and unfiltered tables, rev_move.propose on a state
\* with an edge never meets an empty conditioned slice: none of its four
\* conditioned queries fails, and it returns a state.
C10_NoEmptySlice ==
    (Delegated("rev_move") /\ fan_in >= 1 /\ out.pre[1].adj # {}) =>
        /\ out.err \notin EmptyDistributionError
        /\ out.err = ""
        /\ \A e \in out.pre[1].adj :
              /\ Candidates(ps_scores_(fan_in)[e[1]],
                            rev_cond_z_i(out.inp[1], e[1], e[2])) # {}
              /\ Candidates(ps_scores_(fan_in)[e[2]],
                            rev_cond_z_star_j(out.inp[1], e[1], e[2])) # {}
              /\ Candidates(ps_scores_(fan_in)[e[1]],
                            rev_cond_ps_i(rev_move_orphaned(out.inp[1], e[1], e[2]),
                                          e[1], e[2])) # {}

C10_Witness ==
    /\ Succeeded("rev_move")
    /\ fan_in >= 1
    /\ Cardinality(out.pre[1].adj) = NumVars
    /\ descendants(out.pre[1].adj, out.edge[1][2]) # {}

====
